---- MODULE Spec2Model ----
(***************************************************************************)
(* Model of the Voids Datastore client (src/voidsdatastore.py): one        *)
(* get_key / update_key call of a DatastoreClient against a server whose   *)
(* answers, latencies and transport failures are chosen nondeterministic-  *)
(* ally, with the 202 + /status/{request_id} polling loop of _poll_status. *)
(*                                                                         *)
(* Time is counted in integer ticks of the monotonic clock.  One tick is   *)
(* 0.05 s, so the 0.1 s floor of line 115 is two ticks and a remaining     *)
(* budget of one tick is a budget below that floor.                        *)
(***************************************************************************)
EXTENDS Integers, Sequences, FiniteSets, TLC

(***************************************************************************)
(* Bounds of the model.                                                    *)
(***************************************************************************)
MaxPollTimeout == 3        \* poll_timeout ranges over 0 .. MaxPollTimeout ticks
MaxPollInterval == 2       \* poll_interval ranges over 0 .. MaxPollInterval ticks
MaxRequestTimeout == 3     \* request_timeout is 1 tick or MaxRequestTimeout ticks
MaxLatency == 1            \* the transport's least latency ranges over 0 .. MaxLatency
MaxExchange == 4           \* one HTTP exchange lasts 0 .. MaxExchange ticks

MaxCalls == 2              \* get_key / update_key calls made against the key store

\* Largest number of status requests the model lets one call issue.  A call
\* whose every iteration advances the clock issues at most one request per
\* tick of its budget, so this cap is reached only by iterations that take
\* no time at all.
MaxPolls == MaxPollTimeout + 2

(***************************************************************************)
(* Program constants.                                                      *)
(***************************************************************************)
MinRequestTimeout == 2     \* max(0.1, remaining): 0.1 s in ticks of 0.05 s

Min(a, b) == IF a <= b THEN a ELSE b
Max(a, b) == IF a >= b THEN a ELSE b

(***************************************************************************)
(* Python values.  A JSON document is kept parsed: its kind and, for an    *)
(* object, the value of each field the client can look at.  Field values   *)
(* are strings; PyNone is None / JSON null, Absent marks a missing field.  *)
(***************************************************************************)
PyNone == "<None>"
Absent == "<absent>"

FieldNames == {"requestId", "request_id", "requestid", "status", "Balance"}

NoFields == [k \in FieldNames |-> Absent]

Obj(fs) == [kind |-> "object", raw |-> "", fields |-> [k \in FieldNames |-> IF k \in DOMAIN fs THEN fs[k] ELSE Absent]]

\* Response bodies the server may send.
BodyText == [kind |-> "text", raw |-> "OK", fields |-> NoFields]
BodyEmpty == [kind |-> "text", raw |-> "", fields |-> NoFields]
BodyArray == [kind |-> "array", raw |-> "", fields |-> NoFields]
BodyNull == [kind |-> "null", raw |-> "", fields |-> NoFields]
BodyPending == Obj([status |-> "pending"])
BodyValue == Obj([Balance |-> "42"])
BodyRequestId == Obj([requestId |-> "abc"])
BodyRequest_id == Obj([request_id |-> "abc"])
BodyRequestidLower == Obj([requestid |-> "abc"])
BodyEmptyId == Obj([requestId |-> ""])
BodyNullId == Obj([requestId |-> PyNone])

\* The value None, as the result of a call that falls off its end.
NoneValue == [kind |-> "none", raw |-> "", fields |-> NoFields]

InitialBodies == {BodyText, BodyArray, BodyNull, BodyValue, BodyRequestId, BodyRequest_id, BodyRequestidLower, BodyEmptyId, BodyNullId}
StatusBodies == {BodyText, BodyEmpty, BodyPending, BodyValue}

\* One status code of each class the client tells apart: 200, 202, another
\* 2xx, a 3xx and an error (>= 400).
StatusCodes == {200, 202, 204, 301, 404}

\* The Retry-After header of a response: absent, a number of ticks, or text
\* that is no number.
NoRetryAfter == [kind |-> "absent", ticks |-> 0]
RetryAfterHeaders == {NoRetryAfter, [kind |-> "numeric", ticks |-> 1], [kind |-> "garbage", ticks |-> 0]}

Response(code, body, hdr) == [status_code |-> code, body |-> body, retry_after |-> hdr]
NoResponse == Response(0, NoneValue, NoRetryAfter)

InitialResponses == {Response(c, b, NoRetryAfter) : c \in StatusCodes, b \in InitialBodies}
\* A 200 or an error hands its body to the caller, so these come with every
\* body.  The body of any other response is parsed at most and dropped
\* (lines 130-147): one text body and the pending document stand for them.
\* The server advises a wait only with the 202 answer of a request still in
\* progress.
StatusResponses == {Response(c, b, NoRetryAfter) : c \in {200, 404}, b \in StatusBodies} \cup {Response(c, b, NoRetryAfter) : c \in {202, 204, 301}, b \in {BodyText, BodyPending}} \cup {Response(202, BodyPending, h) : h \in RetryAfterHeaders}

(***************************************************************************)
(* requests.Response.json() and .text                                      *)
(***************************************************************************)
\* resp.json() raises ValueError on a body that is not JSON.
JsonRaises(resp) == resp.body.kind = "text"
\* resp.json(): the parsed document.
RespJson(resp) == resp.body
\* resp.text: the raw body.
RespText(resp) == resp.body

\* Python truthiness of a field value.
Truthy(v) == v \notin {PyNone, Absent, ""}
\* a or b
PyOr(a, b) == IF Truthy(a) THEN a ELSE b
\* dict.get(k): None when the key is missing.
DictGet(data, k) == IF data.fields[k] = Absent THEN PyNone ELSE data.fields[k]
\* data.get raises AttributeError when data is no dict (a list, None).
GetRaises(data) == data.kind # "object"

(***************************************************************************)
(* Outcomes of a call.                                                     *)
(***************************************************************************)
Running == [kind |-> "running", value |-> NoneValue, exc |-> "none", status |-> 0, msg |-> NoneValue, cause |-> FALSE]
Returned(v) == [kind |-> "returned", value |-> v, exc |-> "none", status |-> 0, msg |-> NoneValue, cause |-> FALSE]
Raised(e, code, m, chained) == [kind |-> "raised", value |-> NoneValue, exc |-> e, status |-> code, msg |-> m, cause |-> chained]


(***************************************************************************)
(* DatastoreClient._raise_for_status                                       *)
(***************************************************************************)
\* The message of the error: the JSON body, else the text, else None.
ErrorMessage(resp) == IF JsonRaises(resp) THEN (IF RespText(resp).raw = "" THEN NoneValue ELSE RespText(resp)) ELSE RespJson(resp)

RaiseForStatusRaises(resp) == resp.status_code >= 400

RaiseForStatus(resp) == Raised("DatastoreError", resp.status_code, ErrorMessage(resp), FALSE)

(***************************************************************************)
(* What get_key and update_key do with the response to their first         *)
(* request: return, raise, or enter _poll_status with a request id.        *)
(***************************************************************************)
Finish(o) == [act |-> "finish", outcome |-> o, request_id |-> PyNone]
Poll(id) == [act |-> "poll", outcome |-> Running, request_id |-> id]

\* 200: resp.json(), or resp.text when the body is no JSON.
JsonOrText(resp) == IF JsonRaises(resp) THEN RespText(resp) ELSE RespJson(resp)

\* get_key, line 189
GetKeyRequestId(data) == PyOr(PyOr(DictGet(data, "requestId"), DictGet(data, "request_id")), DictGet(data, "requestid"))

\* update_key, line 257
UpdateKeyRequestId(data) == PyOr(DictGet(data, "requestId"), DictGet(data, "request_id"))

\* Lines 182-193 and 250-261, given the request id the method extracts.
Accepted(resp, id) ==
    IF JsonRaises(resp) THEN Finish(Raised("DatastoreError", 0, NoneValue, FALSE))
    ELSE IF GetRaises(RespJson(resp)) THEN Finish(Raised("AttributeError", 0, NoneValue, FALSE))
    ELSE IF ~Truthy(id) THEN Finish(Raised("DatastoreError", 0, NoneValue, FALSE))
    ELSE Poll(id)

\* The method's last statement: self._raise_for_status(resp), then the end
\* of the function body.
OtherStatus(resp) == IF RaiseForStatusRaises(resp) THEN Finish(RaiseForStatus(resp)) ELSE Finish(Returned(NoneValue))

GetKeyHandle(resp) ==
    IF resp.status_code = 200 THEN Finish(Returned(JsonOrText(resp)))
    ELSE IF resp.status_code = 202
         THEN Accepted(resp, IF JsonRaises(resp) \/ GetRaises(RespJson(resp)) THEN PyNone ELSE GetKeyRequestId(RespJson(resp)))
    ELSE OtherStatus(resp)

UpdateKeyHandle(resp) ==
    IF resp.status_code = 200 THEN Finish(Returned(JsonOrText(resp)))
    ELSE IF resp.status_code = 202
         THEN Accepted(resp, IF JsonRaises(resp) \/ GetRaises(RespJson(resp)) THEN PyNone ELSE UpdateKeyRequestId(RespJson(resp)))
    ELSE OtherStatus(resp)

(***************************************************************************)
(* DatastoreClient._poll_status                                            *)
(***************************************************************************)
\* Line 111 written with < : a budget of exactly zero still issues a request.
BudgetExhaustedLate(remaining) == remaining < 0

\* Line 111: the budget is used up.
BudgetExhausted(remaining) == remaining <= 0

\* Line 115 written like line 172: the request's timeout is
\* self.request_timeout whatever budget is left.
StatusRequestTimeoutUnbudgeted(rt, remaining) == rt

\* Line 115: the timeout given to the status request.
StatusRequestTimeout(rt, remaining) == Min(rt, Max(MinRequestTimeout, remaining))

\* Lines 120-147: what one status response does to the loop.
\*   "return"  the call returns the body,  "raise"  _raise_for_status raises,
\*   "sleep"   time.sleep(interval) and the next iteration.
PollHandle(resp) ==
    IF resp.status_code = 200 THEN "return"
    ELSE IF resp.status_code = 202 THEN "sleep"
    ELSE IF resp.status_code >= 400 /\ RaiseForStatusRaises(resp) THEN "raise"
    ELSE "sleep"

\* Lines 139 and 147 left out: the loop does not sleep.
SleepTimeNone(interval, resp) == 0

\* Lines 139 and 147 with the interval doubled on each iteration.
SleepTimeDoubled(interval, resp) == 2 * interval

\* Lines 139 and 147: the length of the sleep after a response that does not
\* end the loop.
SleepTime(interval, resp) == interval

\* Lines 116-118: a requests.RequestException raised by the status request
\* is re-raised as DatastoreError.
OnRequestException == "raise"

(***************************************************************************)
(* Strings are sequences of characters; a word such as "key" stands for a  *)
(* run of characters without a slash.                                      *)
(***************************************************************************)
EndsWith(str, c) == Len(str) > 0 /\ str[Len(str)] = c
RECURSIVE RStrip(_, _)
RStrip(str, c) == IF EndsWith(str, c) THEN RStrip(SubSeq(str, 1, Len(str) - 1), c) ELSE str

RECURSIVE LStrip(_, _)
LStrip(str, c) == IF Len(str) > 0 /\ str[1] = c THEN LStrip(Tail(str), c) ELSE str

(***************************************************************************)
(* DatastoreClient.__init__ and _build_url                                 *)
(***************************************************************************)
\* Line 32.  The default ends with one slash.
DEFAULT_BASE_URL == <<"https://voidsdatastore.net", "/", "api", "/", "v1", "/">>

\* No base_url given: None, which the empty string behaves like (line 72).
NoBaseUrl == <<>>

\* Line 65 with the two environment variables tried in the other order.
ResolveApiKeySwapped(api_key, env) == PyOr(PyOr(api_key, env.API_KEY), env.VOIDS_DATASTORE_API_KEY)

\* Line 65: api_key or os.getenv("VOIDS_DATASTORE_API_KEY") or os.getenv("API_KEY")
ResolveApiKey(api_key, env) == PyOr(PyOr(api_key, env.VOIDS_DATASTORE_API_KEY), env.API_KEY)

\* Line 66: if not self.api_key: raise AuthenticationError
ConstructorRaises(api_key, env) == ~Truthy(ResolveApiKey(api_key, env))

\* Lines 72-76.
NormalizeBaseUrl(base_url) ==
    LET b == IF base_url = NoBaseUrl THEN DEFAULT_BASE_URL ELSE base_url
    IN  IF ~EndsWith(b, "/") THEN b \o <<"/">> ELSE b

NoClient == [api_key |-> PyNone, base_url |-> NoBaseUrl]

\* Lines 65-81: the client DatastoreClient(api_key, base_url) builds.
NewClient(args, env) == [api_key |-> ResolveApiKey(args.api_key, env), base_url |-> NormalizeBaseUrl(args.base_url)]

\* Line 85.
BuildUrl(base_url, path) == RStrip(base_url, "/") \o <<"/">> \o LStrip(path, "/")

\* Lines 170 and 219: f"key/{game_id}/{key}"
KeyPath(game_id, key) == <<"key", "/", game_id, "/", key>>

(***************************************************************************)
(* Python values that are JSON documents, and JSON text as the sequence of *)
(* its tokens.  json.dumps and json.loads as requests uses them.           *)
(***************************************************************************)
Value(t, n, str, items) == [t |-> t, n |-> n, s |-> str, items |-> items]
JNone == Value("none", 0, "", <<>>)
JInt(n) == Value("int", n, "", <<>>)
JStr(str) == Value("str", 0, str, <<>>)
JList(items) == Value("list", 0, "", items)
\* A dict is the sequence of its items in insertion order.
JDict(items) == Value("dict", 0, "", items)
Item(key, v) == Value("item", 0, key, <<v>>)
\* resp.text of a body that is no JSON.
JText(tokens) == Value("text", 0, "", tokens)

Token(k, n, str) == [k |-> k, n |-> n, s |-> str]
Punct(c) == Token(c, 0, "")
NumTok(n) == Token("num", n, "")
StrTok(str) == Token("str", 0, str)
WordTok(str) == Token("word", 0, str)

RECURSIVE Dumps(_)
RECURSIVE DumpsItems(_)
\* json.dumps
Dumps(v) ==
    CASE v.t = "none" -> <<Punct("null")>>
      [] v.t = "int" -> <<NumTok(v.n)>>
      [] v.t = "str" -> <<StrTok(v.s)>>
      [] v.t = "list" -> <<Punct("[")>> \o DumpsItems(v.items) \o <<Punct("]")>>
      [] v.t = "dict" -> <<Punct("{")>> \o DumpsItems(v.items) \o <<Punct("}")>>
      [] v.t = "item" -> <<StrTok(v.s), Punct(":")>> \o Dumps(v.items[1])

DumpsItems(items) ==
    IF Len(items) = 0 THEN <<>>
    ELSE IF Len(items) = 1 THEN Dumps(items[1])
    ELSE Dumps(items[1]) \o <<Punct(",")>> \o DumpsItems(Tail(items))

Parsed(v, next) == [ok |-> TRUE, v |-> v, next |-> next]
NotParsed == [ok |-> FALSE, v |-> JNone, next |-> 0]

RECURSIVE ParseValue(_, _)
RECURSIVE ParseElement(_, _, _)
RECURSIVE ParseRest(_, _, _, _)
\* The JSON value that starts at token i.
ParseValue(toks, i) ==
    IF i > Len(toks) THEN NotParsed
    ELSE CASE toks[i].k = "null" -> Parsed(JNone, i + 1)
           [] toks[i].k = "num" -> Parsed(JInt(toks[i].n), i + 1)
           [] toks[i].k = "str" -> Parsed(JStr(toks[i].s), i + 1)
           [] toks[i].k \in {"[", "{"} ->
                LET close == IF toks[i].k = "[" THEN "]" ELSE "}"
                    first == IF i + 1 <= Len(toks) /\ toks[i + 1].k = close
                             THEN Parsed(JList(<<>>), i + 2)
                             ELSE LET e == ParseElement(toks, i + 1, close)
                                  IN  IF e.ok THEN ParseRest(toks, e.next, close, <<e.v>>) ELSE NotParsed
                IN  IF ~first.ok THEN NotParsed
                    ELSE IF close = "]" THEN first
                    ELSE Parsed(JDict(first.v.items), first.next)
           [] OTHER -> NotParsed

\* One element of a list, or one "key": value of an object.
ParseElement(toks, i, close) ==
    IF close = "]" THEN ParseValue(toks, i)
    ELSE IF i + 1 <= Len(toks) /\ toks[i].k = "str" /\ toks[i + 1].k = ":"
         THEN LET r == ParseValue(toks, i + 2)
              IN  IF r.ok THEN Parsed(Item(toks[i].s, r.v), r.next) ELSE NotParsed
         ELSE NotParsed

\* After an element: the closing bracket, or a comma and another element.
ParseRest(toks, i, close, acc) ==
    IF i > Len(toks) THEN NotParsed
    ELSE IF toks[i].k = close THEN Parsed(JList(acc), i + 1)
    ELSE IF toks[i].k = ","
         THEN LET e == ParseElement(toks, i + 1, close)
              IN  IF e.ok THEN ParseRest(toks, e.next, close, Append(acc, e.v)) ELSE NotParsed
    ELSE NotParsed

\* json.loads: the whole text is one JSON value, else ValueError.
Loads(toks) == LET r == ParseValue(toks, 1) IN IF r.ok /\ r.next = Len(toks) + 1 THEN r ELSE NotParsed

(***************************************************************************)
(* update_key: the body of the POST (lines 221-240).                       *)
(***************************************************************************)
\* str(value) of a primitive: the digits of a number, the characters of a
\* string.
Str(v) == IF v.t = "int" THEN <<NumTok(v.n)>> ELSE <<WordTok(v.s)>>

\* Lines 222-234: headers, payload and json_payload.  A payload of None is
\* the empty text: requests sends no body for data=None.
UpdateKeyPayload(value) ==
    IF value.t \in {"dict", "list"} THEN [json_payload |-> value, payload |-> <<>>, content_type |-> ""]
    ELSE IF value.t = "none" THEN [json_payload |-> JNone, payload |-> <<>>, content_type |-> ""]
    ELSE [json_payload |-> JNone, payload |-> Str(value), content_type |-> "text/plain"]

\* Line 237 written "if json_payload:": an empty dict or list is not sent.
UsesJsonTruthy(p) == p.json_payload # JNone /\ Len(p.json_payload.items) > 0

\* Line 237: if json_payload is not None
UsesJson(p) == p.json_payload # JNone

\* Lines 238 and 240: session.post(url, json=...) or session.post(url, data=...).
PostBody(p) ==
    IF UsesJson(p) THEN [body |-> Dumps(p.json_payload), content_type |-> "application/json"]
    ELSE [body |-> p.payload, content_type |-> p.content_type]

HttpRequest(method, url, authorization, body, content_type) == [method |-> method, url |-> url, authorization |-> authorization, body |-> body, content_type |-> content_type]
NoRequest == HttpRequest("", <<>>, PyNone, <<>>, "")

\* Lines 176-180 and 244-248 on the text of a 200 response: resp.json(),
\* or resp.text when json() raises ValueError.
KeyResult(text) == LET r == Loads(text) IN IF r.ok THEN Returned(r.v) ELSE Returned(JText(text))

(***************************************************************************)
(* State.                                                                  *)
(***************************************************************************)
VARIABLES
    op,                \* "none", "get_key" or "update_key": the method called
    pc,                \* "ready", "initial", "polling", "status", "done"
    now,               \* time.monotonic(), in ticks
    poll_interval,     \* argument of the call
    poll_timeout,      \* argument of the call
    request_timeout,   \* self.request_timeout
    latency,           \* least duration of an HTTP exchange on this transport
    request_id,        \* the id _poll_status polls for
    poll_start,        \* clock reading when _poll_status was entered
    deadline,          \* line 108
    timeout_arg,       \* timeout= of the request in flight
    issued_at,         \* clock reading when the request in flight was issued
    initial_resp,      \* the response to the first request
    resp,              \* the last status response
    requests,          \* HTTP requests issued by the call
    polls,             \* status requests issued by the call
    pending_seen,      \* status responses 200 with a body reporting "pending"
    other_seen,        \* status responses with any status but 200
    failures,          \* requests.RequestException raised to the call
    last_wait,         \* length of the last sleep, -1 before the first
    outcome,           \* Running, Returned(v) or Raised(...)
    environ,           \* os.environ: VOIDS_DATASTORE_API_KEY and API_KEY
    ctor,              \* arguments of the last DatastoreClient(...) call
    client,            \* the last client constructed: api_key and base_url
    calls,             \* get_key / update_key calls made against the key store
    sent,              \* the last HTTP request put on the wire
    store,             \* the server's stored document of each key URL
    written,           \* the value argument of the last update_key of each key URL
    result,            \* outcome of the last call against the key store
    lb_store,          \* the datastore's value of each key leaderboard:<name>
    lb_index,          \* the datastore's value of the key leaderboards_index
    cmd                \* the last slash command the bot handled

vars == <<op, pc, now, poll_interval, poll_timeout, request_timeout, latency, request_id, poll_start, deadline, timeout_arg, issued_at, initial_resp, resp, requests, polls, pending_seen, other_seen, failures, last_wait, outcome, environ, ctor, client, calls, sent, store, written, result, lb_store, lb_index, cmd>>

params == <<poll_interval, poll_timeout, request_timeout, latency>>
ghosts == <<pending_seen, other_seen, last_wait>>
pollvars == <<request_id, poll_start, deadline>>
botvars == <<lb_store, lb_index, cmd>>
clientvars == <<environ, ctor, client>>
wirevars == <<calls, sent, store, written, result>>

(***************************************************************************)
(* The datastore: the keys that hold a value.  A key never written reads   *)
(* as None.                                                                *)
(***************************************************************************)
NoKeys == [k \in {} |-> 0]
Lookup(keys, k, none) == IF k \in DOMAIN keys THEN keys[k] ELSE none
Put(keys, k, v) == [j \in (DOMAIN keys) \cup {k} |-> IF j = k THEN v ELSE keys[j]]

(***************************************************************************)
(* discord_bot.py: the leaderboards of one guild as the datastore holds    *)
(* them, and the helpers of lines 17-52.                                   *)
(***************************************************************************)
MaxSymbolLen == 7

LbNames == {"alpha", "beta"}
Members == {"m1"}
ScoreValues == {1}
Symbols == {<<>>, <<"$">>, <<"1", "2", "3", "4", "5", "6", "7", "8">>}
Positions == {"prefix", "Suffix"}

\* str.lower() on the positions.
Lower(position) == IF position = "Suffix" THEN "suffix" ELSE position

Range(seq) == {seq[i] : i \in DOMAIN seq}

\* The value of a leaderboard key: None, or the dict create_lb builds.
NoData == [dict |-> FALSE, prefix |-> <<>>, suffix |-> <<>>, scores |-> [m \in {} |-> 0]]
Data(prefix, suffix, scores) == [dict |-> TRUE, prefix |-> prefix, suffix |-> suffix, scores |-> scores]

\* The value of leaderboards_index: a list of names, or anything else.
NoIndex == [list |-> FALSE, names |-> <<>>]
IndexList(names) == [list |-> TRUE, names |-> names]

\* get_value(guild, key): the stored value, or an exception.
Fetch(stored, ok) == [raised |-> ~ok, value |-> stored]

\* Lines 20-24: load_leaderboard.
LoadLeaderboard(got) == IF got.raised THEN NoData ELSE got.value

\* Lines 33-40: list_leaderboards.
ListLeaderboards(got) ==
    IF got.raised THEN <<>>
    ELSE IF got.value.list THEN got.value.names
    ELSE <<>>

\* list.remove: the list without the first occurrence of name.
ListRemove(lbs, name) ==
    LET i == CHOOSE k \in DOMAIN lbs : lbs[k] = name /\ \A j \in 1..(k - 1) : lbs[j] # name
    IN  SubSeq(lbs, 1, i - 1) \o SubSeq(lbs, i + 1, Len(lbs))

\* The run of one command: the datastore as it leaves it, the requests it
\* made, the reply it sent, and whether an exception ended it.
Start == [store |-> lb_store, index |-> lb_index, reads |-> 0, writes |-> 0, raised |-> FALSE, reply |-> ""]
Reply(run, text) == [run EXCEPT !.reply = text]
Read(run) == [run EXCEPT !.reads = @ + 1]
\* How a call of update_value ends: it returns; it raises before the server
\* saw the POST (connection refused); or it raises after the server took the
\* POST (the response lost, a status of 400 or more, or 202 and a status
\* that stays pending until poll_timeout).
WriteOutcomes == {"returned", "refused", "raised"}

\* The run after a write that ended as w and left the datastore as in after.
Written(run, after, w) ==
    [IF w = "refused" THEN run ELSE after EXCEPT !.writes = @ + 1, !.raised = (w # "returned")]

\* Lines 26-27: save_leaderboard.
SaveLeaderboard(run, name, data, w) ==
    Written(run, [run EXCEPT !.store = Put(@, name, data)], w)

\* Lines 29-31: delete_leaderboard.  update_key posts None without a body
\* (UsesJson is false of it), and a POST without a JSON body leaves the key
\* as it is.
DeleteLeaderboard(run, name, w) ==
    Written(run,
            IF UsesJson(UpdateKeyPayload(JNone)) THEN [run EXCEPT !.store = [n \in (DOMAIN @) \ {name} |-> @[n]]] ELSE run,
            w)

\* update_value(guild, "leaderboards_index", lbs)
SaveIndex(run, lbs, w) ==
    Written(run, [run EXCEPT !.index = IndexList(lbs)], w)

\* Lines 42-46: add_leaderboard_to_index.
AddLeaderboardToIndex(run, name, listed, w) ==
    LET lbs == ListLeaderboards(Fetch(run.index, listed))
    IN  IF name \notin Range(lbs) THEN SaveIndex(Read(run), Append(lbs, name), w) ELSE Read(run)

\* Lines 48-52: remove_leaderboard_from_index.
RemoveLeaderboardFromIndex(run, name, listed, w) ==
    LET lbs == ListLeaderboards(Fetch(run.index, listed))
    IN  IF name \in Range(lbs) THEN SaveIndex(Read(run), ListRemove(lbs, name), w) ELSE Read(run)

\* Lines 119-124: the data of a new leaderboard.
NewLeaderboard(position, symbol) ==
    IF symbol # <<>> /\ Lower(position) = "prefix" THEN Data(symbol, <<>>, [m \in {} |-> 0])
    ELSE IF symbol # <<>> /\ Lower(position) = "suffix" THEN Data(<<>>, symbol, [m \in {} |-> 0])
    ELSE Data(<<>>, <<>>, [m \in {} |-> 0])

\* Line 151: data["scores"][str(member.id)] = score
WithScore(data, member, score) ==
    [data EXCEPT !.scores = [m \in (DOMAIN data.scores) \cup {member} |-> IF m = member THEN score ELSE data.scores[m]]]

\* How the datastore calls of a command end: whether each read returns
\* (it raises otherwise) and how each write ends.  The calls are the read and
\* the write of the leaderboard key, then the read and the write of the
\* index; a command that makes only some of them draws only those, and no
\* call follows a write that raised.
Failures(made) ==
    {f \in [load : BOOLEAN, save : WriteOutcomes, list : BOOLEAN, index : WriteOutcomes] :
        /\ "load" \notin made => f.load
        /\ "list" \notin made => f.list
        /\ "save" \notin made => f.save = "returned"
        /\ "index" \notin made => f.index = "returned"
        /\ f.save # "returned" => (f.list /\ f.index = "returned")}

\* The permission check left out: every user passes.
DeniedNobody(admin) == FALSE

\* Lines 107, 136 and 189: not interaction.user.guild_permissions.administrator
Denied(admin) == ~admin

\* Lines 105-129: create_lb.
CreateLbRun(admin, name, position, symbol, f) ==
    IF Denied(admin) THEN Reply(Start, "Admins only.")
    ELSE IF Len(symbol) > MaxSymbolLen THEN Reply(Start, "Prefix/suffix cannot exceed 7 characters.")
    ELSE IF LoadLeaderboard(Fetch(Lookup(lb_store, name, NoData), f.load)).dict THEN Reply(Read(Start), "Leaderboard already exists.")
    ELSE LET saved == SaveLeaderboard(Read(Start), name, NewLeaderboard(position, symbol), f.save)
             added == AddLeaderboardToIndex(saved, name, f.list, f.index)
         IN  IF saved.raised THEN saved
             ELSE IF added.raised THEN added
             ELSE Reply(added, "Created leaderboard")

\* Lines 134-153: set_score.
SetScoreRun(admin, name, member, score, f) ==
    IF Denied(admin) THEN Reply(Start, "Admins only.")
    ELSE LET data == LoadLeaderboard(Fetch(Lookup(lb_store, name, NoData), f.load))
             saved == SaveLeaderboard(Read(Start), name, WithScore(data, member, score), f.save)
         IN  IF ~data.dict THEN Reply(Read(Start), "Leaderboard not found.")
             ELSE IF saved.raised THEN saved
             ELSE Reply(saved, "Set score")

\* Lines 157-166: leaderboard.
LeaderboardRun(name, f) ==
    IF ~LoadLeaderboard(Fetch(Lookup(lb_store, name, NoData), f.load)).dict THEN Reply(Read(Start), "Leaderboard not found.")
    ELSE Reply(Read(Start), "Leaderboard")

\* Lines 170-182: list_lbs.
ListLbsRun(f) ==
    IF ListLeaderboards(Fetch(lb_index, f.list)) = <<>> THEN Reply(Read(Start), "No leaderboards available.")
    ELSE Reply(Read(Start), "Available Leaderboards")

\* Lines 187-200: delete_lb.
DeleteLbRun(admin, name, f) ==
    IF Denied(admin) THEN Reply(Start, "Admins only.")
    ELSE IF ~LoadLeaderboard(Fetch(Lookup(lb_store, name, NoData), f.load)).dict THEN Reply(Read(Start), "Leaderboard not found.")
    ELSE LET deleted == DeleteLeaderboard(Read(Start), name, f.save)
             removed == RemoveLeaderboardFromIndex(deleted, name, f.list, f.index)
         IN  IF deleted.raised THEN deleted
             ELSE IF removed.raised THEN removed
             ELSE Reply(removed, "Deleted leaderboard")

\* The command the bot handled last, and its run.
Command(name, lb, admin, symbol, run) == [name |-> name, lb |-> lb, admin |-> admin, symbol |-> symbol, run |-> run]
NoCommand == Command("", "", FALSE, <<>>, [store |-> NoKeys, index |-> NoIndex, reads |-> 0, writes |-> 0, raised |-> FALSE, reply |-> ""])

\* A guild with no key written yet and no command handled.
BotIdle ==
    /\ lb_store = NoKeys
    /\ lb_index = NoIndex
    /\ cmd = NoCommand

\* Inputs of the constructor and of the calls against the key store.
ApiKeyArgs == {PyNone, "", "arg-key"}
PrimaryKeys == {PyNone, "", "primary-key"}
SecondaryKeys == {PyNone, "", "secondary-key"}
BaseUrls == {NoBaseUrl, <<"h">>, <<"h", "/">>, <<"h", "/", "/">>}
GameIds == {"g1"}
Keys == {"bits", "leaderboards_index"}
StructuredValues == {JDict(<<>>), JList(<<>>), JDict(<<Item("scores", JDict(<<Item("7", JInt(3))>>))>>), JList(<<JInt(1), JStr("x"), JNone>>)}
Values == StructuredValues \cup {JNone, JInt(5), JStr("x")}

Environ(primary, secondary) == [VOIDS_DATASTORE_API_KEY |-> primary, API_KEY |-> secondary]
\* The api_key and base_url arguments the program passes, and whether it has
\* called DatastoreClient(...) with them yet.
Args(called, api_key, base_url) == [called |-> called, api_key |-> api_key, base_url |-> base_url]

\* No client built and nothing sent or stored yet.
WireInit ==
    /\ calls = 0
    /\ sent = NoRequest
    /\ store = NoKeys
    /\ written = NoKeys
    /\ result = Running

\* One call of a client built as DatastoreClient(api_key="arg-key").
Init ==
    /\ environ = Environ(PyNone, PyNone)
    /\ ctor = Args(TRUE, "arg-key", NoBaseUrl)
    /\ client = NewClient(ctor, environ)
    /\ WireInit
    /\ BotIdle
    /\ op = "none"
    /\ pc = "ready"
    /\ now = 0
    /\ poll_interval \in 0..MaxPollInterval
    /\ poll_timeout \in 0..MaxPollTimeout
    /\ request_timeout \in {1, MaxRequestTimeout}
    /\ latency \in 0..MaxLatency
    /\ request_id = PyNone
    /\ poll_start = 0
    /\ deadline = 0
    /\ timeout_arg = 0
    /\ issued_at = 0
    /\ initial_resp = NoResponse
    /\ resp = NoResponse
    /\ requests = 0
    /\ polls = 0
    /\ pending_seen = 0
    /\ other_seen = 0
    /\ failures = 0
    /\ last_wait = -1
    /\ outcome = Running

\* session.get / session.post (timeout=...): the timeout bounds each wait of
\* the transport for the server's next bytes, not the exchange, which lasts
\* as long as the server keeps sending.  A response whose first bytes come
\* within the timeout can be complete after any time from the latency on;
\* the transport can fail at once (a refused connection), when the timeout
\* runs out with nothing received, or a timeout after the last bytes came.
ResponseDelays == {d \in 0..MaxExchange : latency <= timeout_arg /\ d >= latency}
FailureDelays == {d \in 0..MaxExchange : d >= Min(latency, timeout_arg)}

IsPending(body) == body.kind = "object" /\ body.fields["status"] = "pending"

(***************************************************************************)
(* get_key / update_key: the first request (lines 170-172, 219-240).       *)
(***************************************************************************)
Send(method) ==
    /\ pc = "ready"
    /\ op' = method
    /\ pc' = "initial"
    /\ requests' = requests + 1
    /\ timeout_arg' = request_timeout
    /\ issued_at' = now
    /\ UNCHANGED <<now, params, pollvars, initial_resp, resp, polls, ghosts, failures, outcome, clientvars, wirevars, botvars>>

GetKey == Send("get_key")

UpdateKey == Send("update_key")

\* The response to the first request arrives and the method handles it
\* (lines 176-196, 244-264); on 202 with a request id _poll_status starts
\* and fixes its deadline (lines 107-108).
Handle(r, d, h) ==
    /\ now' = now + d
    /\ initial_resp' = r
    /\ IF h.act = "poll"
       THEN /\ request_id' = h.request_id
            /\ poll_start' = now'
            /\ deadline' = now' + poll_timeout
            /\ pc' = "polling"
            /\ UNCHANGED outcome
       ELSE /\ outcome' = h.outcome
            /\ pc' = "done"
            /\ UNCHANGED <<request_id, poll_start, deadline>>
    /\ UNCHANGED <<op, params, timeout_arg, issued_at, resp, requests, polls, ghosts, failures, clientvars, wirevars, botvars>>

GetKeyResponse ==
    /\ pc = "initial" /\ op = "get_key"
    /\ \E r \in InitialResponses, d \in ResponseDelays : Handle(r, d, GetKeyHandle(r))

UpdateKeyResponse ==
    /\ pc = "initial" /\ op = "update_key"
    /\ \E r \in InitialResponses, d \in ResponseDelays : Handle(r, d, UpdateKeyHandle(r))

\* Lines 173-174, 241-242: raise DatastoreError(...) from e.
InitialRequestException ==
    /\ pc = "initial"
    /\ \E d \in FailureDelays : now' = now + d
    /\ failures' = failures + 1
    /\ outcome' = Raised("DatastoreError", 0, NoneValue, TRUE)
    /\ pc' = "done"
    /\ UNCHANGED <<op, params, pollvars, timeout_arg, issued_at, initial_resp, resp, requests, polls, ghosts, clientvars, wirevars, botvars>>

(***************************************************************************)
(* _poll_status: the top of the loop (lines 110-115).                      *)
(***************************************************************************)
PollTimedOut ==
    /\ pc = "polling"
    /\ BudgetExhausted(deadline - now)
    /\ outcome' = Raised("PollTimeoutError", 0, NoneValue, FALSE)
    /\ pc' = "done"
    /\ UNCHANGED <<op, now, params, pollvars, timeout_arg, issued_at, initial_resp, resp, requests, polls, ghosts, failures, clientvars, wirevars, botvars>>

PollRequest ==
    /\ pc = "polling"
    /\ ~BudgetExhausted(deadline - now)
    /\ polls < MaxPolls
    /\ timeout_arg' = StatusRequestTimeout(request_timeout, deadline - now)
    /\ issued_at' = now
    /\ requests' = requests + 1
    /\ polls' = polls + 1
    /\ pc' = "status"
    /\ UNCHANGED <<op, now, params, pollvars, initial_resp, resp, ghosts, failures, outcome, clientvars, wirevars, botvars>>

(***************************************************************************)
(* _poll_status: a status response (lines 120-147).                        *)
(***************************************************************************)
PollResponse ==
    /\ pc = "status"
    /\ \E r \in StatusResponses, d \in ResponseDelays :
        /\ resp' = r
        /\ pending_seen' = IF r.status_code = 200 /\ IsPending(r.body) THEN pending_seen + 1 ELSE pending_seen
        /\ other_seen' = IF r.status_code # 200 THEN other_seen + 1 ELSE other_seen
        /\ CASE PollHandle(r) = "return" ->
                /\ now' = now + d
                /\ outcome' = Returned(JsonOrText(r))
                /\ pc' = "done"
                /\ UNCHANGED last_wait
             [] PollHandle(r) = "raise" ->
                /\ now' = now + d
                /\ outcome' = RaiseForStatus(r)
                /\ pc' = "done"
                /\ UNCHANGED last_wait
             [] PollHandle(r) = "sleep" ->
                /\ now' = now + d + SleepTime(poll_interval, r)
                /\ last_wait' = SleepTime(poll_interval, r)
                /\ pc' = "polling"
                /\ UNCHANGED outcome
    /\ UNCHANGED <<op, params, pollvars, timeout_arg, issued_at, initial_resp, requests, polls, failures, clientvars, wirevars, botvars>>

\* Lines 116-118: raise DatastoreError(...) from e.
PollRequestException ==
    /\ pc = "status"
    /\ \E d \in FailureDelays :
        /\ failures' = failures + 1
        /\ IF OnRequestException = "raise"
           THEN /\ now' = now + d
                /\ outcome' = Raised("DatastoreError", 0, NoneValue, TRUE)
                /\ pc' = "done"
           ELSE /\ now' = now + d + poll_interval
                /\ pc' = "polling"
                /\ UNCHANGED outcome
    /\ UNCHANGED <<op, params, pollvars, timeout_arg, issued_at, initial_resp, resp, requests, polls, ghosts, clientvars, wirevars, botvars>>

Next ==
    \/ GetKey
    \/ UpdateKey
    \/ GetKeyResponse
    \/ UpdateKeyResponse
    \/ InitialRequestException
    \/ PollTimedOut
    \/ PollRequest
    \/ PollResponse
    \/ PollRequestException

Spec == Init /\ [][Next]_vars

\* The call under the claim's provisos.  Every polling iteration advances
\* the clock: the exchange or the sleep takes at least one tick.  The server
\* answers: every exchange ends, when the server has sent its whole response
\* or when the transport fails, which the request's timeout brings about
\* only once the server has stopped sending.  The call is a running thread,
\* so a step of its own that can be taken is taken.
LiveInit == Init /\ latency + poll_interval > 0

LiveSpec == LiveInit /\ [][Next]_vars /\ WF_vars(Next)

(***************************************************************************)
(* Construction, the convenience functions, and calls against a server     *)
(* that keeps the JSON body of every POST to a key and answers every GET   *)
(* and POST with 200 and the stored document.                              *)
(***************************************************************************)
callvars == <<op, pc, now, params, pollvars, timeout_arg, issued_at, initial_resp, resp, requests, polls, ghosts, failures, outcome>>

ClientInit ==
    /\ environ \in {Environ(p, q) : p \in PrimaryKeys, q \in SecondaryKeys}
    /\ ctor \in {Args(FALSE, k, b) : k \in ApiKeyArgs, b \in BaseUrls}
    /\ client = NoClient
    /\ WireInit
    /\ BotIdle
    /\ op = "none"
    /\ pc = "new"
    /\ now = 0
    /\ poll_interval = 0
    /\ poll_timeout = 0
    /\ request_timeout = 1
    /\ latency = 0
    /\ request_id = PyNone
    /\ poll_start = 0
    /\ deadline = 0
    /\ timeout_arg = 0
    /\ issued_at = 0
    /\ initial_resp = NoResponse
    /\ resp = NoResponse
    /\ requests = 0
    /\ polls = 0
    /\ pending_seen = 0
    /\ other_seen = 0
    /\ failures = 0
    /\ last_wait = -1
    /\ outcome = Running

\* The server: a POST whose body is a JSON document replaces the stored
\* document of the URL.
ServerStore(st, req) ==
    IF req.method = "POST" /\ req.content_type = "application/json"
    THEN LET r == Loads(req.body) IN IF r.ok THEN Put(st, req.url, r.v) ELSE st
    ELSE st

\* The server's answer: 200 with the stored document as JSON text.
ServerAnswer(st, req) == Dumps(Lookup(st, req.url, JNone))

\* DatastoreClient(api_key, base_url): lines 65-81.  A raising constructor
\* leaves no client.
Build ==
    /\ ctor' = [ctor EXCEPT !.called = TRUE]
    /\ client' = IF ConstructorRaises(ctor.api_key, environ) THEN NoClient ELSE NewClient(ctor, environ)

AuthenticationError == Raised("AuthenticationError", 0, NoneValue, FALSE)

Construct ==
    /\ pc = "new"
    /\ ~ctor.called
    /\ Build
    /\ result' = IF client' = NoClient THEN AuthenticationError ELSE Running
    /\ pc' = IF client' = NoClient THEN "new" ELSE "ready"
    /\ UNCHANGED <<environ, calls, sent, store, written>>
    /\ UNCHANGED <<op, now, params, pollvars, timeout_arg, issued_at, initial_resp, resp, requests, polls, ghosts, failures, outcome, botvars>>

\* client.update_key(game_id, key, value) by the client c: lines 219-248.
StoredUpdate(c, g, k, v) ==
    LET url == BuildUrl(c.base_url, KeyPath(g, k))
        post == PostBody(UpdateKeyPayload(v))
    IN  /\ sent' = HttpRequest("POST", url, c.api_key, post.body, post.content_type)
        /\ calls' = calls + 1
        /\ store' = ServerStore(store, sent')
        /\ written' = Put(written, sent'.url, v)
        /\ result' = KeyResult(ServerAnswer(store', sent'))

\* client.get_key(game_id, key) by the client c: lines 170-180.
StoredGet(c, g, k) ==
    LET url == BuildUrl(c.base_url, KeyPath(g, k))
    IN  /\ sent' = HttpRequest("GET", url, c.api_key, <<>>, "")
        /\ calls' = calls + 1
        /\ result' = KeyResult(ServerAnswer(store, sent'))
        /\ UNCHANGED <<store, written>>

UpdateKeyStored ==
    /\ pc = "ready"
    /\ calls < MaxCalls
    /\ \E g \in GameIds, k \in Keys, v \in Values : StoredUpdate(client, g, k, v)
    /\ UNCHANGED <<clientvars, callvars, botvars>>

GetKeyStored ==
    /\ pc = "ready"
    /\ calls < MaxCalls
    /\ \E g \in GameIds, k \in Keys : StoredGet(client, g, k)
    /\ UNCHANGED <<clientvars, callvars, botvars>>

\* _build_client raised: the convenience function ends with the error.
BuildFailed ==
    /\ result' = AuthenticationError
    /\ UNCHANGED <<calls, sent, store, written>>

\* get_value(game_id, key, api_key, base_url): lines 287-288.
GetValue ==
    /\ pc = "new"
    /\ calls < MaxCalls
    /\ Build
    /\ \E g \in GameIds, k \in Keys :
        IF client' = NoClient THEN BuildFailed ELSE StoredGet(client', g, k)
    /\ UNCHANGED <<environ, callvars, botvars>>

\* update_value(game_id, key, value, api_key, base_url): lines 307-308.
UpdateValue ==
    /\ pc = "new"
    /\ calls < MaxCalls
    /\ Build
    /\ \E g \in GameIds, k \in Keys, v \in Values :
        IF client' = NoClient THEN BuildFailed ELSE StoredUpdate(client', g, k, v)
    /\ UNCHANGED <<environ, callvars, botvars>>

ClientNext ==
    \/ Construct
    \/ UpdateKeyStored
    \/ GetKeyStored
    \/ GetValue
    \/ UpdateValue

ClientSpec == ClientInit /\ [][ClientNext]_vars

(***************************************************************************)
(* The slash commands of the bot.  The helpers call the datastore          *)
(* synchronously, so a command runs from its first request to its reply    *)
(* (or to the exception that ends it) with no other command in between.    *)
(***************************************************************************)
BotInit ==
    /\ environ = Environ("primary-key", PyNone)
    /\ ctor = Args(FALSE, PyNone, NoBaseUrl)
    /\ client = NoClient
    /\ WireInit
    /\ BotIdle
    /\ op = "none"
    /\ pc = "new"
    /\ now = 0
    /\ poll_interval = 0
    /\ poll_timeout = 0
    /\ request_timeout = 1
    /\ latency = 0
    /\ request_id = PyNone
    /\ poll_start = 0
    /\ deadline = 0
    /\ timeout_arg = 0
    /\ issued_at = 0
    /\ initial_resp = NoResponse
    /\ resp = NoResponse
    /\ requests = 0
    /\ polls = 0
    /\ pending_seen = 0
    /\ other_seen = 0
    /\ failures = 0
    /\ last_wait = -1
    /\ outcome = Running

\* The command leaves the datastore as its run did.
Handled ==
    /\ lb_store' = cmd'.run.store
    /\ lb_index' = cmd'.run.index
    /\ UNCHANGED <<clientvars, wirevars, callvars>>

CreateLb ==
    /\ \E admin \in BOOLEAN, name \in LbNames, position \in Positions, symbol \in Symbols, f \in Failures({"load", "save", "list", "index"}) :
        cmd' = Command("create_lb", name, admin, symbol, CreateLbRun(admin, name, position, symbol, f))
    /\ Handled

SetScore ==
    /\ \E admin \in BOOLEAN, name \in LbNames, member \in Members, score \in ScoreValues, f \in Failures({"load", "save"}) :
        cmd' = Command("set_score", name, admin, <<>>, SetScoreRun(admin, name, member, score, f))
    /\ Handled

Leaderboard ==
    /\ \E name \in LbNames, f \in Failures({"load"}) :
        cmd' = Command("leaderboard", name, FALSE, <<>>, LeaderboardRun(name, f))
    /\ Handled

ListLbs ==
    /\ \E f \in Failures({"list"}) :
        cmd' = Command("list_lbs", "", FALSE, <<>>, ListLbsRun(f))
    /\ Handled

DeleteLb ==
    /\ \E admin \in BOOLEAN, name \in LbNames, f \in Failures({"load", "save", "list", "index"}) :
        cmd' = Command("delete_lb", name, admin, <<>>, DeleteLbRun(admin, name, f))
    /\ Handled

BotNext ==
    \/ CreateLb
    \/ SetScore
    \/ Leaderboard
    \/ ListLbs
    \/ DeleteLb

BotSpec == BotInit /\ [][BotNext]_vars

(***************************************************************************)
(* Properties.                                                             *)
(***************************************************************************)
Done == pc = "done"
InPolling == pc \in {"polling", "status"}
StatusSeen == resp # NoResponse
InitialSeen == initial_resp # NoResponse

\* C1: a call never returns a body reporting status "pending": a status
\* response 200 {"status": "pending"} keeps the loop polling and is not the
\* value the call returns.
C1_NoPendingReturned ==
    /\ outcome.kind = "returned" => ~IsPending(outcome.value)
    /\ (StatusSeen /\ resp.status_code = 200 /\ IsPending(resp.body)) => pc = "polling"

\* C2: after N status responses 200 {"status": "pending"} and one terminal
\* response, with no other status response in between, the call has issued
\* exactly N+1 status requests and returns the terminal body unchanged.
C2_PendingThenTerminal ==
    (Done /\ outcome.kind = "returned" /\ polls > 0 /\ other_seen = 0) =>
        /\ ~IsPending(resp.body)
        /\ polls = pending_seen + 1
        /\ outcome.value = resp.body

\* C3: the deadline is fixed once as start + poll_timeout; a status request
\* is issued only while budget remains, so never at or after the deadline;
\* and at the top of the loop with the deadline reached the call raises
\* PollTimeoutError without another request.
C3_DeadlineState ==
    /\ (InPolling \/ polls > 0) => deadline = poll_start + poll_timeout
    /\ pc = "status" => issued_at < deadline
    /\ (Done /\ outcome.exc = "PollTimeoutError") => now >= deadline

C3_DeadlineStep ==
    /\ InPolling => deadline' = deadline
    /\ (pc = "polling" /\ now >= deadline) => (outcome'.exc = "PollTimeoutError" /\ pc' = "done" /\ requests' = requests)
    /\ polls' > polls => now < deadline

C3_Deadline == [](C3_DeadlineState) /\ [][C3_DeadlineStep]_vars

\* C3 witness: the deadline passed during a status exchange or the sleep
\* after it, and the call raised PollTimeoutError.
C3_Witness == Done /\ outcome.exc = "PollTimeoutError" /\ polls >= 1 /\ now > deadline

\* C4: every call whose polling iterations advance the clock ends, as an
\* immediate result, a polled result or a raised error, and as one of them
\* only, whatever the server answers.
ImmediateResult == outcome.kind = "returned" /\ polls = 0
PolledResult == outcome.kind = "returned" /\ polls > 0
RaisedError == outcome.kind = "raised" /\ outcome.exc \in {"DatastoreError", "PollTimeoutError", "AttributeError"}

C4_Terminates == <>(Done /\ (ImmediateResult \/ PolledResult \/ RaisedError))

\* C4 witness: the server answered 202 to every status request until the
\* budget ran out.
C4_Witness == Done /\ outcome.exc = "PollTimeoutError" /\ polls >= 2 /\ other_seen = polls /\ resp.status_code = 202

\* C5: an initial response with a status other than 200 and 202 makes the
\* call raise DatastoreError carrying that status; no value is returned.
C5_OtherStatusRaises ==
    (InitialSeen /\ initial_resp.status_code \notin {200, 202}) =>
        (Done /\ outcome.kind = "raised" /\ outcome.exc = "DatastoreError" /\ outcome.status = initial_resp.status_code)

\* C6: an initial 202 whose body supplies no usable request id (no JSON, no
\* JSON object, no requestId / request_id field, or an empty or null id)
\* makes the call raise DatastoreError, with no status request issued.
UsableRequestId(body) == body.kind = "object" /\ Truthy(PyOr(DictGet(body, "requestId"), DictGet(body, "request_id")))

C6_NoRequestIdRaises ==
    (InitialSeen /\ initial_resp.status_code = 202 /\ ~UsableRequestId(initial_resp.body)) =>
        (Done /\ outcome.kind = "raised" /\ outcome.exc = "DatastoreError" /\ polls = 0)

\* C7: a status response whose code is not 2xx ends the call with
\* DatastoreError carrying the status and the body.
C7_NonSuccessFatal ==
    (StatusSeen /\ (resp.status_code < 200 \/ resp.status_code >= 300)) =>
        (Done /\ outcome.kind = "raised" /\ outcome.exc = "DatastoreError" /\ outcome.status = resp.status_code /\ outcome.msg = ErrorMessage(resp))

\* A pending answer, read as widely as the source allows: a 2xx other than
\* the final 200 (line 128: "202 or other 2xx indicating pending"), or a
\* body reporting status "pending" under any code.
PendingAnswer(r) == r.status_code \in 201..299 \/ IsPending(r.body)

\* C8: a transport failure is not retried: the call ends with
\* DatastoreError chained to its cause and issues no request afterwards;
\* and only a pending answer causes another status request: every status
\* request after the first follows a pending answer, never a failure and
\* never any other answer.
C8_FailureState ==
    /\ failures > 0 => (Done /\ failures = 1 /\ outcome.kind = "raised" /\ outcome.exc = "DatastoreError" /\ outcome.cause)
    /\ (pc = "status" /\ polls > 1) => (failures = 0 /\ StatusSeen /\ PendingAnswer(resp))

C8_FailureStep == (failures > 0 \/ failures' > 0) => requests' = requests

C8_NoRetry == [](C8_FailureState) /\ [][C8_FailureStep]_vars

\* C9: get_key and update_key treat the response to their first request
\* alike: the same return, the same error, or polling for the same id.
C9_SameHandling == InitialSeen => GetKeyHandle(initial_resp) = UpdateKeyHandle(initial_resp)

\* C10: the sleep after a pending status response lasts as long as its
\* numeric Retry-After header says, and poll_interval when the header is
\* absent or no number.
AdvisedWait(r, interval) == IF r.retry_after.kind = "numeric" THEN r.retry_after.ticks ELSE interval

C10_RetryAfterHonoured ==
    (pc = "polling" /\ StatusSeen /\ resp.status_code = 202 /\ IsPending(resp.body)) => last_wait = AdvisedWait(resp, poll_interval)

\* C11 as claimed: the timeout given to a status request is no greater
\* than the budget left when the request is issued.
C11_TimeoutWithinBudget == pc = "status" => timeout_arg <= deadline - issued_at

\* C11 as amended: the timeout given to a status request is no greater
\* than the budget left when that budget is at least 0.1 s, and no greater
\* than 0.1 s when the budget is below it.
C11_TimeoutWithinFlooredBudget == pc = "status" => timeout_arg <= Max(MinRequestTimeout, deadline - issued_at)

\* C11 witness: a status request in flight whose timeout the budget cut
\* below request_timeout, and one issued with less than 0.1 s left.
C11_Witness == pc = "status" /\ timeout_arg < request_timeout /\ deadline - issued_at < MinRequestTimeout

\* C16: the wait after every status response that does not end the call is
\* poll_interval, the same on every iteration of one call.
C16_FixedDelayState == (last_wait # -1) => last_wait = poll_interval

C16_FixedDelayStep ==
    /\ poll_interval' = poll_interval
    /\ (pc = "status" /\ pc' = "polling") => (last_wait' = poll_interval /\ now' >= now + poll_interval)

C16_FixedDelay == [](C16_FixedDelayState) /\ [][C16_FixedDelayStep]_vars

\* C16 witness: a third wait of a call with a positive interval.
C16_Witness == pc = "polling" /\ polls = 3 /\ poll_interval > 0 /\ last_wait = poll_interval

\* The time the call has spent since its last status request was issued,
\* the exchange of that request left out: the wait that followed it, if the
\* loop waited.
Waited == pc = "polling" \/ (Done /\ outcome.exc = "PollTimeoutError")
SinceIssued == IF Waited /\ polls > 0 THEN last_wait ELSE 0

\* C17: the duration of the last status exchange left out, a call that
\* entered polling ends no later than the deadline, and a wait between
\* iterations never ends after the deadline.
C17_DeadlineBoundsCall ==
    /\ (pc = "polling" /\ last_wait > 0) => issued_at + SinceIssued <= deadline
    /\ (Done /\ polls > 0) => issued_at + SinceIssued <= deadline

(***************************************************************************)
(* The client against the key store.                                       *)
(***************************************************************************)
\* The credentials in the order of the documentation, and the first of them
\* that is a non-empty string (PyNone when there is none).
Credentials == <<ctor.api_key, environ.VOIDS_DATASTORE_API_KEY, environ.API_KEY>>
NonEmpty(x) == x # PyNone /\ x # ""
FirstNonEmpty ==
    IF \E i \in 1..3 : NonEmpty(Credentials[i])
    THEN Credentials[CHOOSE i \in 1..3 : NonEmpty(Credentials[i]) /\ \A j \in 1..(i - 1) : ~NonEmpty(Credentials[j])]
    ELSE PyNone

\* The last request on the wire was the POST of update_key(..., None).
NoneWritten == sent.method = "POST" /\ Lookup(written, sent.url, JNone) = JNone

\* C12: update_key called with value None sends a POST whose body is the
\* JSON document null, JSON-encoded, and not an empty body.
C12_NoneSentAsJsonNull ==
    NoneWritten => (sent.body = <<Punct("null")>> /\ sent.content_type = "application/json")

\* C13: once the constructor has run (called directly or by get_value /
\* update_value), the client's credential is the first non-empty one of the
\* explicit argument, VOIDS_DATASTORE_API_KEY and API_KEY, and every request
\* carries it; when all three are absent or empty there is no client, the
\* call ended with AuthenticationError and no HTTP request has been issued.
C13_CredentialOrder ==
    ctor.called =>
        IF FirstNonEmpty = PyNone
        THEN client = NoClient /\ result = AuthenticationError /\ calls = 0 /\ sent = NoRequest
        ELSE /\ client # NoClient
             /\ client.api_key = FirstNonEmpty
             /\ result # AuthenticationError
             /\ calls > 0 => sent.authorization = FirstNonEmpty

\* The argument is None, the primary variable is set but empty, and a request
\* went out with the secondary variable's key.
C13_Witness ==
    /\ ctor.called
    /\ ctor.api_key = PyNone
    /\ environ.VOIDS_DATASTORE_API_KEY = ""
    /\ environ.API_KEY = "secondary-key"
    /\ calls > 0
    /\ sent.authorization = "secondary-key"

\* The last call was a get_key of a key whose last update_key wrote a dict
\* or a list.
GetAfterStructuredUpdate == sent.method = "GET" /\ Lookup(written, sent.url, JNone).t \in {"dict", "list"}

\* C14: against a server that stores the JSON body of each POST and answers
\* 200 with the stored document, get_key after update_key(ns, key, v) of a
\* dict or list v (the empty ones included) returns a value equal to v.
C14_RoundTrip == GetAfterStructuredUpdate => result = Returned(Lookup(written, sent.url, JNone))

\* The empty dict was written and read back.
C14_Witness ==
    /\ sent.method = "GET"
    /\ Lookup(written, sent.url, JNone) = JDict(<<>>)
    /\ result = Returned(JDict(<<>>))

\* C15: whatever base address the constructor was given (no trailing slash,
\* one, or several), the stored base_url ends with exactly one "/".
C15_SingleTrailingSlash ==
    client # NoClient =>
        /\ EndsWith(client.base_url, "/")
        /\ ~EndsWith(SubSeq(client.base_url, 1, Len(client.base_url) - 1), "/")

(***************************************************************************)
(* The bot's commands.                                                     *)
(***************************************************************************)
\* The names the stored index lists (none when it is not a list).
Indexed == Range(lb_index.names)

\* C18: create_lb never overwrites an existing leaderboard: whatever the
\* datastore does, a failing read included, when the key of the name already
\* holds data the command issues no write (its first write is the one to
\* that key) and the stored data is unchanged.
C18_NoOverwrite ==
    [][(cmd'.name = "create_lb" /\ cmd'.lb \in DOMAIN lb_store) =>
            (cmd'.run.writes = 0 /\ Lookup(lb_store', cmd'.lb, NoData) = lb_store[cmd'.lb])]_vars

\* C19: adding a name to the index or removing one changes the stored index
\* by that name only: whatever the datastore does, a failing or non-list read
\* of the index included, every other name the stored index listed before
\* the command is still listed after it.
C19_IndexFrame ==
    [][\A n \in LbNames : (n # cmd'.lb /\ n \in Indexed) => n \in Range(lb_index'.names)]_vars

\* C20: after any sequence of commands, each completed or ended by a
\* datastore error raised from one of its writes, a name is listed in
\* leaderboards_index if and only if its key holds leaderboard data.
C20_IndexMatchesData == \A n \in LbNames : (n \in Indexed) <=> (n \in DOMAIN lb_store)

\* The command of this step is one of the three that ask for the
\* administrator permission.
AdminCommand == cmd'.name \in {"create_lb", "set_score", "delete_lb"}

\* The command of this step made no datastore request of the given kinds and
\* left the stored leaderboards and the stored index as they were.
Untouched(kinds) ==
    /\ \A k \in kinds : cmd'.run[k] = 0
    /\ lb_store' = lb_store
    /\ lb_index' = lb_index

\* C21: a create_lb, set_score or delete_lb command of a user without the
\* administrator permission issues no datastore request, neither a read nor a
\* write, and a create_lb with a symbol of more than 7 characters issues no
\* datastore write; either way the stored leaderboards and the stored index
\* are unchanged.
C21_RefusedCommandsWriteNothing ==
    [][/\ (AdminCommand /\ ~cmd'.admin) => Untouched({"reads", "writes"})
       /\ (cmd'.name = "create_lb" /\ Len(cmd'.symbol) > MaxSymbolLen) => Untouched({"writes"})]_vars

\* An administrator's create_lb with a symbol of 8 characters, for a name that
\* holds no data while another leaderboard is stored and listed, was refused
\* without a write.
C21_Witness ==
    /\ cmd.name = "create_lb"
    /\ cmd.admin
    /\ Len(cmd.symbol) > MaxSymbolLen
    /\ cmd.lb \notin DOMAIN lb_store
    /\ lb_store # NoKeys
    /\ Indexed # {}
    /\ cmd.run.writes = 0
    /\ cmd.run.reply = "Prefix/suffix cannot exceed 7 characters."

====
